---- MODULE Spec2Model ----
(***************************************************************************)
(* Zia conversation service: the three HTTP handlers of the server         *)
(* (/api/conversation/start, /message, /end), the session store they use   *)
(* (the in-memory registry of demo mode, the Supabase table otherwise),    *)
(* and the escalation and verification policies.                           *)
(*                                                                         *)
(* A handler is an async function: the code between two awaits runs        *)
(* atomically on the event loop, and other handlers run while one is       *)
(* suspended at an await.  One action of this module is one such atomic    *)
(* stretch of one handler.                                                 *)
(***************************************************************************)
EXTENDS Integers, Sequences, FiniteSets, TLC

\* ------------------------------------------------------------------ bounds

\* Number of HTTP requests issued over a run (each request slot is used once).
MaxReq == 3
\* Number of session ids uuidv4() hands out over a run.
MaxSessions == 1

\* ------------------------------------------------------------ value domains

Null == "null"

ReqIds == 1..MaxReq
Sids == 1..MaxSessions
\* A session id no StartSession ever generated.
UnknownSid == 0

\* The customerId and orderIds values requests carry.
CustomerIds == {"cust_2", "cust_9"}
OrderIdLists == {<<>>, <<"order_4">>}

\* parseInt(id.replace(/\D/g, '')) || 12345
IdNum(id) ==
  CASE id = "cust_2" -> 2
    [] id = "cust_9" -> 9
    [] id = "order_4" -> 4
    [] id = "7" -> 7
    [] OTHER -> 12345

\* A JavaScript value that is a number or undefined: the set of its values.
Undefined == {}
Num(n) == {n}
\* x > y for a number y: false when x is undefined.
JsGreater(x, y) == \E n \in x : n > y

\* config.thresholds / config.verificationWindows, fraud score in tenths.
HighValueOrder == 1000
FraudRiskScore10 == 7
WrongOrderWindow == 60
\* Minutes between the epoch and now: new Date(null) is the epoch.
MinutesSinceEpoch == 29000000

\* -------------------------------------------------- collaborators' data

\* getMockCustomerInfo: tier, fraud risk and complaint frequency from the id.
getMockCustomerInfo(customerId) ==
  [ id |-> customerId,
    membershipTier |-> CASE IdNum(customerId) % 3 = 0 -> "REGULAR"
                         [] IdNum(customerId) % 3 = 1 -> "PRO"
                         [] OTHER -> "PRO_PLUS",
    fraudRiskScore10 |-> Num(IdNum(customerId) % 10),
    complaintFrequency |-> Num(IdNum(customerId) % 8) ]

\* getCustomerInfo's catch: the minimal placeholder customer.
PlaceholderCustomer(customerId) ==
  [ id |-> customerId,
    membershipTier |-> "REGULAR",
    fraudRiskScore10 |-> Undefined,
    complaintFrequency |-> Undefined ]

\* getMockOrderDetails: status and restaurant from the order number; the
\* order was delivered 10 minutes ago when its status is DELIVERED.
MockSubtotal(orderId) ==
  CASE IdNum(orderId) % 8 = 0 -> 199 + 179 + 129 * 2
    [] IdNum(orderId) % 8 = 1 -> 189 + 159 + 99 + 79 * 2
    [] IdNum(orderId) % 8 = 2 -> 349 + 129 + 89
    [] IdNum(orderId) % 8 = 3 -> 299 + 249 + 99 * 2
    [] OTHER -> 199 + 149 * 2 + 79

\* The deliveredAt of an order: a date (minutes before now), null or absent.
DeliveredAgo(m) == [kind |-> "date", minutesAgo |-> m]
DeliveredNull == [kind |-> "null", minutesAgo |-> 0]
DeliveredUndefined == [kind |-> "undefined", minutesAgo |-> 0]

\* Math.round(x * 0.05) for a non-negative integer x.
RoundTax(x) == (x * 5 + 50) \div 100

getMockOrderDetails(orderId) ==
  [ id |-> orderId,
    totalAmount |-> MockSubtotal(orderId) + RoundTax(MockSubtotal(orderId)) + 49,
    deliveredAt |-> IF IdNum(orderId) % 5 = 4 THEN DeliveredAgo(10) ELSE DeliveredNull,
    problemFlag |-> FALSE ]

\* getOrderDetails' catch: the minimal placeholder order (no deliveredAt,
\* no problemFlag, totalAmount 0).
PlaceholderOrder(orderId) ==
  [ id |-> orderId,
    totalAmount |-> 0,
    deliveredAt |-> DeliveredUndefined,
    problemFlag |-> FALSE ]

\* The order service of production mode (response.data): here order 4 is a
\* high-value order delivered 90 minutes ago, every other order as in the mock.
OrderServiceData(orderId) ==
  IF orderId = "order_4"
    THEN [ id |-> orderId, totalAmount |-> 1200,
           deliveredAt |-> DeliveredAgo(90), problemFlag |-> FALSE ]
    ELSE getMockOrderDetails(orderId)

\* getOrderDetails(orderId): mock data in demo mode, the service's answer
\* otherwise, the placeholder when the call fails.
getOrderDetails(demo, orderId, failed) ==
  IF demo THEN getMockOrderDetails(orderId)
  ELSE IF failed THEN PlaceholderOrder(orderId)
  ELSE OrderServiceData(orderId)

\* getCustomerInfo(customerId), likewise.
getCustomerInfo(demo, customerId, failed) ==
  IF demo THEN getMockCustomerInfo(customerId)
  ELSE IF failed THEN PlaceholderCustomer(customerId)
  ELSE getMockCustomerInfo(customerId)

\* ------------------------------------------------------- message texts

\* The texts a customer sends.  A text stands for its content; the language
\* processor's classification of it, the frustration phrase it contains and
\* the order number it mentions are functions of the text.
Texts == {"hello", "my order is wrong", "order #7 is wrong",
          "let me talk to a supervisor"}

\* detectIntent(message): the type of the intent returned.
detectIntent(text) ==
  CASE text = "my order is wrong" -> "WRONG_ORDER"
    [] text = "order #7 is wrong" -> "WRONG_ORDER"
    [] text = "let me talk to a supervisor" -> "ESCALATION_REQUEST"
    [] OTHER -> "GENERAL_QUERY"

\* The frustration indicators the lower-cased text includes.
FrustrationIndicatorsIn(text) ==
  CASE text = "let me talk to a supervisor" -> {"talk to a supervisor"}
    [] text = "This is USELESS, let me talk to a supervisor" ->
         {"useless", "talk to a supervisor"}
    [] text = "Are you a bot" -> {"are you a bot"}
    [] OTHER -> {}

\* frustrationIndicators.some(indicator => message.includes(indicator))
HasFrustrationIndicator(text) == FrustrationIndicatorsIn(text) # {}

\* message.match(/order #?(\d+)/i): the order number the text mentions.
MentionedOrder(text) == IF text = "order #7 is wrong" THEN "7" ELSE Null

\* extractEntities(message, session).orderId
extractEntitiesOrderId(text, session) ==
  IF MentionedOrder(text) # Null THEN MentionedOrder(text)
  ELSE IF Len(session.orderIds) > 0 THEN session.orderIds[1]
  ELSE Null

\* The canned reply of the handler's switch, by intent type.
CannedResponse(intent) ==
  CASE intent = "MISSING_ITEM" -> "missing item refund"
    [] intent = "LATE_DELIVERY" -> "late delivery credits"
    [] intent = "REFUND_REQUEST" -> "full refund"
    [] intent = "ESCALATION_REQUEST" -> "connecting to support team"
    [] intent = "ORDER_STATUS" -> "order status"
    [] OTHER -> "how can I assist"

\* ------------------------------------------------------------- policies

\* customerInfo when the caller has none: reading a property of it throws.
UndefinedCustomer ==
  [ id |-> "undefined",
    membershipTier |-> "undefined",
    fraudRiskScore10 |-> Undefined,
    complaintFrequency |-> Undefined ]

\* session.conversationHistory when the session has none: calling a method
\* of it throws.
UndefinedHistory ==
  <<[role |-> "undefined", content |-> "undefined", req |-> 0]>>

\* The count as a bug would have it: every phrase of a message counts.
RECURSIVE FrustrationCountPerPhrase(_)
FrustrationCountPerPhrase(history) ==
  IF history = <<>> THEN 0
  ELSE (IF Head(history).role = "user"
          THEN Cardinality(FrustrationIndicatorsIn(Head(history).content))
          ELSE 0)
       + FrustrationCountPerPhrase(Tail(history))

\* frustrationCount: the user messages that include an indicator.
FrustrationCount(history) ==
  Cardinality({i \in DOMAIN history :
                 /\ history[i].role = "user"
                 /\ HasFrustrationIndicator(history[i].content)})

\* The catch blocks of shouldAutoEscalate and determinePriority.
AutoEscalateOnError == FALSE
PriorityOnErrorHigh == "HIGH"
PriorityOnError == "MEDIUM"

\* shouldAutoEscalate(session); an absent orderDetails or resolutions is
\* skipped by the code like an empty one.
shouldAutoEscalate(session) ==
  IF session.customerInfo = UndefinedCustomer THEN AutoEscalateOnError
  ELSE IF session.customerInfo.membershipTier = "PRO_PLUS" THEN TRUE
  ELSE IF session.conversationHistory = UndefinedHistory THEN AutoEscalateOnError
  ELSE \/ FrustrationCount(session.conversationHistory) >= 2
       \/ \E i \in DOMAIN session.orderDetails :
             session.orderDetails[i].totalAmount > HighValueOrder
       \/ Len(session.resolutions) >= 2

\* The conversation as a bug would have it long: from 10 messages on.
LongConversationInclusive(history) == Len(history) >= 10

\* session.conversationHistory.length > 10
LongConversation(history) == Len(history) > 10

\* determinePriority(session)
determinePriority(session) ==
  IF session.customerInfo = UndefinedCustomer THEN PriorityOnError
  ELSE IF session.customerInfo.membershipTier \in {"PRO_PLUS", "PRO"} THEN "HIGH"
  ELSE IF session.conversationHistory = UndefinedHistory THEN PriorityOnError
  ELSE IF LongConversation(session.conversationHistory) THEN "HIGH"
  ELSE IF \E i \in DOMAIN session.orderDetails :
             session.orderDetails[i].totalAmount > HighValueOrder
    THEN "HIGH"
  ELSE IF JsGreater(session.customerInfo.complaintFrequency, 3) THEN "HIGH"
  ELSE "MEDIUM"

\* (now - new Date(orderDetails.deliveredAt)) in minutes: the epoch for
\* null, NaN (Undefined) for a missing deliveredAt.
MinutesSinceDelivery(orderDetails) ==
  CASE orderDetails.deliveredAt.kind = "null" -> Num(MinutesSinceEpoch)
    [] orderDetails.deliveredAt.kind = "undefined" -> Undefined
    [] OTHER -> Num(orderDetails.deliveredAt.minutesAgo)

\* A JavaScript value that may be undefined, as the set of its values.
Defined(v) == {v}
ValueOf(x) == CHOOSE v \in x : TRUE

\* The orderedAt of an order: a date (hours before now) or absent.
OrderedAgo(h) == [kind |-> "date", hoursAgo |-> h]
OrderedUndefined == [kind |-> "undefined", hoursAgo |-> 0]

\* orderDetails when the caller has none: reading a property of it throws.
UndefinedOrder ==
  [ id |-> "undefined", totalAmount |-> 0, deliveredAt |-> DeliveredUndefined,
    problemFlag |-> FALSE, estimatedDeliveryTime |-> DeliveredUndefined,
    restaurantOpen |-> FALSE, items |-> Undefined, deliveryFee |-> Undefined,
    refunded |-> FALSE, orderedAt |-> OrderedUndefined ]

\* The catch block as a bug would have it: the complaint is rejected.
BenefitDenied ==
  [ verified |-> FALSE,
    reason |-> "Verification error" ]

\* The catch block of the three verify functions.
BenefitOfDoubt ==
  [ verified |-> TRUE,
    reason |-> "Verification error, giving benefit of doubt to customer" ]

\* verifyWrongOrderIssue(orderDetails, wrongItems, customerInfo)
verifyWrongOrderIssue(orderDetails, wrongItems, customerInfo) ==
  IF orderDetails = UndefinedOrder
    THEN BenefitOfDoubt
  ELSE IF orderDetails.problemFlag
    THEN [verified |-> TRUE, reason |-> "Order already flagged as problematic"]
  ELSE IF customerInfo = UndefinedCustomer
    THEN BenefitOfDoubt
  ELSE IF customerInfo.membershipTier \in {"PRO", "PRO_PLUS"}
    THEN [verified |-> TRUE, reason |-> "Trusted customer tier"]
  ELSE IF JsGreater(MinutesSinceDelivery(orderDetails), WrongOrderWindow)
    THEN [verified |-> FALSE, reason |-> "Complaint received too long after delivery"]
  ELSE IF JsGreater(customerInfo.fraudRiskScore10, FraudRiskScore10)
    THEN [verified |-> FALSE, reason |-> "Customer risk score exceeds threshold"]
  ELSE [verified |-> TRUE, reason |-> "Customer report accepted"]

\* ------------------------------------------------------ decisionEngine

\* config.verificationWindows, config.thresholds (amounts in rupees, times
\* in minutes) and config.compensationRates (in percent).
MissingItemWindow == 60
LateDeliveryWindow == 24 * 60
AcceptableLateness == 10
RedeliveryWindowMinutes == 120
MaxLateFee == 200
MaxBonusAmount == 100
SlightlyLate == 10
ModeratelyLate == 20
VeryLate == 30
PremiumBonus == 20
\* The literals of decideSolution and calculateAffectedItemsAmount.
DefaultCompensation == 50
StandardCompensation == 100
UnmatchedShare == 30

\* Amounts the engine computes are fractions of rupees: they are kept in
\* hundredths of a rupee.
Hundredths(rupees) == rupees * 100
PercentOf(percent, rupees) == percent * rupees
Min(a, b) == IF a < b THEN a ELSE b

\* String.prototype.toLowerCase on the names in use.
toLowerCase(str) ==
  CASE str = "Margherita Pizza" -> "margherita pizza"
    [] str = "Free Dip" -> "free dip"
    [] str = "Garlic Bread" -> "garlic bread"
    [] str = "Pizza" -> "pizza"
    [] OTHER -> str

\* String.prototype.includes on the lower-case names in use.
StringIncludes(str, part) ==
  \/ str = part
  \/ <<str, part>> \in {<<"margherita pizza", "pizza">>, <<"free dip", "dip">>,
                        <<"garlic bread", "bread">>}

\* x <= y and x < y for a number y: false when x is NaN.
JsLessEq(x, y) == \E n \in x : n <= y
JsLess(x, y) == \E n \in x : n < y

\* The claimed names among the ordered ones:
\* missingItems.filter(item => orderedItems.includes(item.toLowerCase()))
ValidMissingItems(items, missingItems) ==
  SelectSeq(missingItems,
            LAMBDA claimed : \E i \in DOMAIN items :
                                toLowerCase(items[i].name) = toLowerCase(claimed))

\* verifyMissingItemIssue(orderDetails, missingItems, customerInfo)
verifyMissingItemIssue(orderDetails, missingItems, customerInfo) ==
  IF orderDetails = UndefinedOrder \/ orderDetails.items = Undefined
       \/ missingItems = Undefined
    THEN BenefitOfDoubt
  ELSE IF /\ Len(ValidMissingItems(ValueOf(orderDetails.items),
                                   ValueOf(missingItems))) = 0
          /\ Len(ValueOf(missingItems)) > 0
    THEN [verified |-> FALSE,
          reason |-> "Claimed missing items were not in the original order"]
  ELSE IF orderDetails.problemFlag
    THEN [verified |-> TRUE, reason |-> "Order already flagged as problematic"]
  ELSE IF customerInfo = UndefinedCustomer
    THEN BenefitOfDoubt
  ELSE IF customerInfo.membershipTier \in {"PRO", "PRO_PLUS"}
    THEN [verified |-> TRUE, reason |-> "Trusted customer tier"]
  ELSE IF JsGreater(MinutesSinceDelivery(orderDetails), MissingItemWindow)
    THEN [verified |-> FALSE, reason |-> "Complaint received too long after delivery"]
  ELSE IF JsGreater(customerInfo.fraudRiskScore10, FraudRiskScore10)
    THEN [verified |-> FALSE, reason |-> "Customer risk score exceeds threshold"]
  ELSE [verified |-> TRUE, reason |-> "Customer report accepted"]

\* (actualDeliveryTime - estimatedDeliveryTime) in minutes; NaN when either
\* date is invalid.
LatenessMinutes(orderDetails) ==
  IF orderDetails.estimatedDeliveryTime.kind = "undefined"
       \/ orderDetails.deliveredAt.kind = "undefined"
    THEN Undefined
  ELSE Num((IF orderDetails.estimatedDeliveryTime.kind = "null"
              THEN MinutesSinceEpoch
              ELSE orderDetails.estimatedDeliveryTime.minutesAgo)
           - ValueOf(MinutesSinceDelivery(orderDetails)))

\* verifyLateDeliveryIssue(orderDetails, customerInfo)
verifyLateDeliveryIssue(orderDetails, customerInfo) ==
  IF orderDetails = UndefinedOrder
    THEN BenefitOfDoubt
  ELSE IF JsLessEq(LatenessMinutes(orderDetails), 0)
    THEN [verified |-> FALSE, reason |-> "Delivery was on time or early"]
  ELSE IF JsLess(LatenessMinutes(orderDetails), AcceptableLateness)
    THEN [verified |-> FALSE, reason |-> "within acceptable range"]
  ELSE IF JsGreater(MinutesSinceDelivery(orderDetails), LateDeliveryWindow)
    THEN [verified |-> FALSE, reason |-> "Complaint received too long after delivery"]
  ELSE [verified |-> TRUE, reason |-> "Delivery was late"]

\* config.thresholds.refundEligibilityDays
RefundEligibilityDays == 7

\* (now - new Date(orderDetails.orderedAt)) in hours; NaN without orderedAt.
HoursSinceOrder(orderDetails) ==
  IF orderDetails.orderedAt.kind = "undefined" THEN Undefined
  ELSE Num(orderDetails.orderedAt.hoursAgo)

\* The percentage as a bug would have it: reduced for every customer.
RefundPercentageAnyTier(customerInfo, hoursSinceOrder) ==
  IF JsGreater(hoursSinceOrder, 3 * 24) THEN 50
  ELSE IF JsGreater(hoursSinceOrder, 24) THEN 75
  ELSE 100

\* refundPercentage: reduced with the order's age unless the customer is
\* premium.
RefundPercentage(customerInfo, hoursSinceOrder) ==
  IF customerInfo.membershipTier \in {"PRO", "PRO_PLUS"} THEN 100
  ELSE IF JsGreater(hoursSinceOrder, 3 * 24) THEN 50
  ELSE IF JsGreater(hoursSinceOrder, 24) THEN 75
  ELSE 100

NotEligible(reason) ==
  [eligible |-> FALSE, amount |-> 0, percentage |-> 0, reason |-> reason]

\* checkRefundEligibility(orderDetails, customerInfo, reason); the amount
\* in hundredths.
checkRefundEligibility(orderDetails, customerInfo) ==
  IF orderDetails = UndefinedOrder
    THEN NotEligible("Error determining eligibility")
  ELSE IF orderDetails.refunded
    THEN NotEligible("Order has already been refunded")
  ELSE IF JsGreater(HoursSinceOrder(orderDetails), RefundEligibilityDays * 24)
    THEN NotEligible("Order is more than 7 days old")
  ELSE IF customerInfo = UndefinedCustomer
    THEN NotEligible("Error determining eligibility")
  ELSE [ eligible |-> TRUE,
         amount |-> orderDetails.totalAmount
                    * RefundPercentage(customerInfo, HoursSinceOrder(orderDetails)),
         percentage |-> RefundPercentage(customerInfo,
                                         HoursSinceOrder(orderDetails)),
         reason |-> Null ]

\* The forEach of calculateAffectedItemsAmount: price * quantity summed over
\* the items whose lower-case name includes a claimed lower-case name.
RECURSIVE MatchedTotal(_, _)
MatchedTotal(items, itemNames) ==
  IF items = <<>> THEN 0
  ELSE (IF \E n \in DOMAIN itemNames :
              StringIncludes(toLowerCase(Head(items).name),
                             toLowerCase(itemNames[n]))
          THEN Head(items).price * Head(items).quantity
          ELSE 0)
       + MatchedTotal(Tail(items), itemNames)

\* calculateAffectedItemsAmount throws: orderDetails.items.forEach on a
\* missing item list, reached when names are given.
CalculateThrows(orderDetails, itemNames) ==
  /\ itemNames # Undefined
  /\ Len(ValueOf(itemNames)) > 0
  /\ orderDetails.items = Undefined

\* calculateAffectedItemsAmount(orderDetails, itemNames), in hundredths.
calculateAffectedItemsAmount(orderDetails, itemNames) ==
  IF itemNames = Undefined \/ Len(ValueOf(itemNames)) = 0
    THEN 0
  ELSE IF MatchedTotal(ValueOf(orderDetails.items), ValueOf(itemNames)) = 0
    THEN PercentOf(UnmatchedShare, orderDetails.totalAmount)
  ELSE Hundredths(MatchedTotal(ValueOf(orderDetails.items), ValueOf(itemNames)))

\* A Solution; amount and bonusAmount in hundredths.
Solution(type, amount, bonusAmount, reason) ==
  [ type |-> type, amount |-> amount, bonusAmount |-> bonusAmount,
    reason |-> reason ]

\* The catch block of decideSolution.
StandardSolution ==
  Solution("CREDIT", Hundredths(StandardCompensation), Undefined,
           "Standard compensation")

\* Redelivery as a bug would have it: offered whenever the restaurant is open.
RedeliveryWheneverOpen(orderDetails) == orderDetails.restaurantOpen

\* restaurantIsOpen && minutesSinceDelivery < redeliveryWindowMinutes, the
\* minutes being 0 for an order without deliveredAt.
RedeliveryIsPossible(orderDetails) ==
  /\ orderDetails.restaurantOpen
  /\ \/ orderDetails.deliveredAt.kind # "date"
     \/ orderDetails.deliveredAt.minutesAgo < RedeliveryWindowMinutes

\* The entities naming the affected items of the issue.
AffectedNames(issueType, entities) ==
  IF issueType = "WRONG_ORDER" THEN entities.wrongItems
  ELSE entities.missingItems

\* affectedAmount of decideSolution, in hundredths.
AffectedAmount(issueType, orderDetails, entities) ==
  IF /\ issueType = "WRONG_ORDER"
     /\ \/ entities.wrongItems = Undefined
        \/ Len(ValueOf(entities.wrongItems)) = 0
    THEN Hundredths(orderDetails.totalAmount)
  ELSE calculateAffectedItemsAmount(orderDetails,
                                    AffectedNames(issueType, entities))

IssueReason(issueType) ==
  IF issueType = "WRONG_ORDER" THEN "Wrong items in order"
  ELSE "Missing items in order"

\* The rate table as a bug would have it: the bounds belong to the upper band.
CompensationRateInclusive(latenessMinutes) ==
  IF latenessMinutes >= 60 THEN VeryLate
  ELSE IF latenessMinutes >= 30 THEN ModeratelyLate
  ELSE IF latenessMinutes >= 15 THEN SlightlyLate
  ELSE 0

\* compensationRate by lateness, in percent.
CompensationRate(latenessMinutes) ==
  IF latenessMinutes > 60 THEN VeryLate
  ELSE IF latenessMinutes > 30 THEN ModeratelyLate
  ELSE IF latenessMinutes > 15 THEN SlightlyLate
  ELSE 0

\* entities.latenessMinutes || 0
LatenessOrZero(entities) ==
  IF entities.latenessMinutes = Undefined THEN 0
  ELSE ValueOf(entities.latenessMinutes)

\* orderDetails.deliveryFee || 50, in hundredths.
DeliveryFeeOrDefault(orderDetails) ==
  IF orderDetails.deliveryFee = Undefined \/ orderDetails.deliveryFee = Num(0)
    THEN Hundredths(DefaultCompensation)
  ELSE Hundredths(ValueOf(orderDetails.deliveryFee))

\* decideSolution(issueType, orderDetails, customerInfo, entities)
decideSolution(issueType, orderDetails, customerInfo, entities) ==
  IF orderDetails = UndefinedOrder THEN StandardSolution
  ELSE IF issueType \in {"WRONG_ORDER", "MISSING_ITEM"}
    THEN IF CalculateThrows(orderDetails, AffectedNames(issueType, entities))
           THEN StandardSolution
         ELSE IF RedeliveryIsPossible(orderDetails)
           THEN Solution("REDELIVERY",
                         AffectedAmount(issueType, orderDetails, entities),
                         Undefined, IssueReason(issueType))
         ELSE IF customerInfo = UndefinedCustomer
           THEN StandardSolution
         ELSE IF customerInfo.membershipTier \in {"PRO", "PRO_PLUS"}
           THEN LET affectedAmount ==
                      AffectedAmount(issueType, orderDetails, entities)
                    bonusAmount ==
                      Min((affectedAmount * PremiumBonus) \div 100,
                          Hundredths(MaxBonusAmount))
                IN Solution("CREDIT", affectedAmount + bonusAmount,
                            Num(bonusAmount), IssueReason(issueType))
         ELSE Solution("REFUND",
                       AffectedAmount(issueType, orderDetails, entities),
                       Undefined, IssueReason(issueType))
  ELSE IF issueType = "LATE_DELIVERY"
    THEN IF LatenessOrZero(entities) > 90
           THEN Solution("REFUND", Hundredths(orderDetails.totalAmount),
                         Undefined, "Extreme delivery delay")
         ELSE Solution("CREDIT",
                       Min(PercentOf(CompensationRate(LatenessOrZero(entities)),
                                     orderDetails.totalAmount),
                           Hundredths(MaxLateFee)),
                       Undefined, "Delivery delay")
  ELSE Solution("CREDIT", DeliveryFeeOrDefault(orderDetails), Undefined,
                "Compensation for inconvenience")

\* ---------------------------------------------------------------- state

VARIABLES
  demoMode,          \* config.demoMode
  sessions,          \* keys of the in-memory registry `sessions` (demo mode)
  heap,              \* the session objects, by the id they were created under
  db,                \* the Supabase table sessions: session id -> row
  resolutionLogs,    \* the Supabase table resolution_logs
  nextSid,           \* session ids generated so far
  req,               \* the handler invocations: position and local variables
  returned,          \* session ids a StartSession response has carried
  endedLog,          \* per ended session: its logs when EndSession returned
  escalatedReported, \* sessions a response has reported escalated=true for
  obs,               \* per request: what held when it began, acted and ended
  engine             \* a call of the decision engine: arguments and result

vars == <<demoMode, sessions, heap, db, resolutionLogs, nextSid, req,
          returned, endedLog, escalatedReported, obs, engine>>

Message(role, content, r) == [role |-> role, content |-> content, req |-> r]

NoMessage == Message("none", Null, 0)

NoOrderDetails == PlaceholderOrder(Null)

\* The session object StartSession builds (sessionData).
SessionData(customerInfo, orderIds, orderDetails) ==
  [ customerInfo |-> customerInfo,
    orderIds |-> orderIds,
    orderDetails |-> orderDetails,
    conversationHistory |-> <<>>,
    status |-> "active",
    escalated |-> FALSE,
    resolutions |-> <<>> ]

NoSession == SessionData(PlaceholderCustomer(Null), <<>>, <<>>)

\* A handler invocation not yet made.
IdleReq ==
  [ op |-> "none", pc |-> "idle", sid |-> UnknownSid, text |-> Null,
    session |-> NoSession, buf |-> <<>>, msg |-> NoMessage, after |-> Null,
    orderId |-> Null, orderDetails |-> NoOrderDetails, response |-> Null,
    status |-> 0, escalated |-> FALSE ]

IdleObs ==
  [ known |-> FALSE, lookupFailed |-> FALSE, afterEnd |-> FALSE,
    overtaken |-> FALSE,
    afterEscalated |-> FALSE, shouldAuto |-> FALSE, storedEscalated |-> FALSE,
    verified |-> Null, producedResolution |-> FALSE ]

\* The arguments of a decision engine call not yet made.
NoEntities ==
  [ wrongItems |-> Undefined, missingItems |-> Undefined,
    latenessMinutes |-> Undefined ]

\* The decision engine is not called.
IdleEngine ==
  [ fn |-> "none", orderDetails |-> UndefinedOrder,
    customerInfo |-> UndefinedCustomer, issueType |-> Null,
    entities |-> NoEntities, itemNames |-> Undefined,
    verification |-> [verified |-> FALSE, reason |-> Null],
    solution |-> Solution(Null, 0, Undefined, Null),
    amount |-> 0, threw |-> FALSE,
    eligibility |-> NotEligible(Null),
    session |-> NoSession, escalate |-> FALSE, priority |-> Null ]

Init ==
  /\ demoMode \in BOOLEAN
  /\ sessions = {}
  /\ heap = <<>>
  /\ db = <<>>
  /\ resolutionLogs = <<>>
  /\ nextSid = 0
  /\ req = [r \in ReqIds |-> IdleReq]
  /\ returned = {}
  /\ endedLog = <<>>
  /\ escalatedReported = {}
  /\ obs = [r \in ReqIds |-> IdleObs]
  /\ engine = IdleEngine

\* The outcomes of a call to a collaborator (the Supabase client, the order
\* and customer services): FALSE it succeeds, TRUE it fails.  Demo mode
\* calls none.
FaultChoices == IF demoMode THEN {FALSE} ELSE BOOLEAN

\* Requests are issued in the order of their slots.
CanIssue(r) ==
  /\ req[r].op = "none"
  /\ \A q \in ReqIds : q < r => req[q].op # "none"

\* res.json(...) / res.status(code).json(...): the handler is over.
Finish(rq, code, response, escalated) ==
  [ IdleReq EXCEPT !.op = rq.op, !.pc = "done", !.sid = rq.sid,
                   !.status = code, !.response = response,
                   !.escalated = escalated ]

\* The push as a bug would have it: the array is replaced by the new entry.
PushReplacing(array, entry) == <<entry>>

\* conversationHistory.push(message) / resolutions.push(resolution)
Push(array, entry) == Append(array, entry)

\* The stored session under an id: the object in demo mode, the row otherwise.
Stored == IF demoMode THEN heap ELSE db

\* ------------------------------------------- POST /api/conversation/start

\* The handler up to the point where it stores the session: the id is
\* generated, customer and orders are fetched (a failed fetch yields the
\* placeholder), sessionData is built.
StartSession(r) ==
  /\ CanIssue(r)
  /\ nextSid < MaxSessions
  /\ \E customerId \in CustomerIds, orderIds \in OrderIdLists,
        custFailed \in FaultChoices, orderFailed \in FaultChoices :
       /\ orderFailed => Len(orderIds) > 0
       /\ req' = [req EXCEPT ![r] =
            [ IdleReq EXCEPT
                !.op = "start", !.pc = "create", !.sid = nextSid + 1,
                !.session = SessionData(
                   getCustomerInfo(demoMode, customerId, custFailed),
                   orderIds,
                   [i \in DOMAIN orderIds |->
                      getOrderDetails(demoMode, orderIds[i], orderFailed)]) ]]
  /\ nextSid' = nextSid + 1
  /\ UNCHANGED <<engine, demoMode, sessions, heap, db, resolutionLogs, returned,
                 endedLog, escalatedReported, obs>>

\* Demo mode: sessions[sessionId] = sessionData, the welcome message is
\* pushed and the response sent, without an await in between.
\* Otherwise: database.createSession inserts the row, or fails (HTTP 500).
StoreSession(r) ==
  /\ req[r].op = "start" /\ req[r].pc = "create"
  /\ IF demoMode
       THEN /\ heap' = heap @@ (req[r].sid :>
                 [req[r].session EXCEPT !.conversationHistory =
                    Push(@, Message("assistant", "welcome", r))])
            /\ sessions' = sessions \cup {req[r].sid}
            /\ returned' = returned \cup {req[r].sid}
            /\ req' = [req EXCEPT ![r] = Finish(@, 200, "welcome", FALSE)]
            /\ UNCHANGED db
       ELSE \E failed \in FaultChoices :
            /\ IF failed
                 THEN /\ req' = [req EXCEPT ![r] =
                           Finish(@, 500, "Failed to start conversation", FALSE)]
                      /\ UNCHANGED db
                 ELSE /\ db' = db @@ (req[r].sid :> req[r].session)
                      /\ req' = [req EXCEPT ![r] =
                           [@ EXCEPT !.pc = "am_read",
                                     !.msg = Message("assistant", "welcome", r),
                                     !.after = "start"]]
            /\ UNCHANGED <<heap, sessions, returned>>
  /\ UNCHANGED <<engine, demoMode, resolutionLogs, nextSid, endedLog,
                 escalatedReported, obs>>

\* The catch block of a handler: HTTP 500.
ErrorText(op) ==
  CASE op = "start" -> "Failed to start conversation"
    [] op = "message" -> "Failed to process message"
    [] OTHER -> "Failed to end conversation"

Fail500(rq) == Finish(rq, 500, ErrorText(rq.op), FALSE)

\* What the end of a successful turn leaves to observe: the escalation
\* policy's verdict on the stored session and the stored flag.
ObserveTurnEnd(r, storedSession) ==
  obs' = [obs EXCEPT ![r] =
            [@ EXCEPT !.shouldAuto = shouldAutoEscalate(storedSession),
                      !.storedEscalated = storedSession.escalated]]

ReportEscalated(sid, escalated) ==
  escalatedReported' =
     IF escalated THEN escalatedReported \cup {sid} ELSE escalatedReported

\* ------------------------------------- database.addMessageToSession

\* The select of conversation_history: the array is read into the handler,
\* or the call fails and the handler answers 500.
AddMessageRead(r) ==
  /\ req[r].pc = "am_read"
  /\ \E failed \in FaultChoices :
       /\ req' = [req EXCEPT ![r] =
            IF failed \/ req[r].sid \notin DOMAIN db
              THEN Fail500(@)
              ELSE [@ EXCEPT !.pc = "am_write",
                             !.buf = db[req[r].sid].conversationHistory]]
  /\ UNCHANGED <<engine, demoMode, sessions, heap, db, resolutionLogs, nextSid,
                 returned, endedLog, escalatedReported, obs>>

\* conversationHistory.push(message) on the array read, then the update
\* that writes the whole array back; the handler goes on where it called
\* from: StartSession and the end of a turn respond, the user message's
\* append is followed by the language processing.
AddMessageWrite(r) ==
  /\ req[r].pc = "am_write"
  /\ \E failed \in FaultChoices :
       /\ IF failed
            THEN /\ req' = [req EXCEPT ![r] = Fail500(@)]
                 /\ UNCHANGED <<db, returned, escalatedReported, obs>>
            ELSE /\ db' = [db EXCEPT ![req[r].sid].conversationHistory =
                             Push(req[r].buf, req[r].msg)]
                 /\ CASE req[r].after = "start" ->
                           /\ req' = [req EXCEPT ![r] = Finish(@, 200, "welcome", FALSE)]
                           /\ returned' = returned \cup {req[r].sid}
                           /\ UNCHANGED <<escalatedReported, obs>>
                      [] req[r].after = "nlp" ->
                           /\ req' = [req EXCEPT ![r] =
                                 [@ EXCEPT !.pc = "nlp", !.buf = <<>>,
                                           !.msg = NoMessage, !.after = Null]]
                           /\ UNCHANGED <<returned, escalatedReported, obs>>
                      [] OTHER ->
                           /\ req' = [req EXCEPT ![r] =
                                 Finish(@, 200, @.response, @.session.escalated)]
                           /\ ObserveTurnEnd(r, db'[req[r].sid])
                           /\ ReportEscalated(req[r].sid, req[r].session.escalated)
                           /\ UNCHANGED returned
  /\ UNCHANGED <<engine, demoMode, sessions, heap, resolutionLogs, nextSid, endedLog>>

\* ----------------------------------------- POST /api/conversation/message

\* database.getSession's select(...).single(): the row when there is one;
\* for a session id without a row the client reports an error (thrown) or
\* no data (null returned); a failed call throws.
GetSessionOutcomes(sid, failed) ==
  IF failed THEN {"error"}
  ELSE IF sid \in DOMAIN db THEN {"row"}
  ELSE {"error", "null"}

\* What is known of the session when a request for it arrives, and whether
\* the call that looks the session up fails.
ObserveArrival(r, sid, failed) ==
  obs' = [obs EXCEPT ![r] =
            [@ EXCEPT !.known = sid \in returned,
                      !.lookupFailed = failed,
                      !.afterEnd = sid \in DOMAIN endedLog,
                      !.afterEscalated = sid \in escalatedReported]]

\* The handler up to its first await after the lookup.  Demo mode: the
\* session object is looked up in the registry (404 when absent) and the
\* user message pushed.  Otherwise: database.getSession answers (404 on no
\* data, 500 on a throw) and addMessageToSession is called.
ReceiveMessage(r) ==
  /\ CanIssue(r)
  /\ \E sid \in returned \cup {UnknownSid}, text \in Texts :
       LET rq == [IdleReq EXCEPT !.op = "message", !.sid = sid, !.text = text]
          IN IF demoMode
               THEN /\ ObserveArrival(r, sid, FALSE)
                    /\ IF sid \notin sessions
                         THEN /\ req' = [req EXCEPT ![r] =
                                   Finish(rq, 404, "Session not found", FALSE)]
                              /\ UNCHANGED heap
                         ELSE /\ heap' = [heap EXCEPT ![sid].conversationHistory =
                                   Push(@, Message("user", text, r))]
                              /\ req' = [req EXCEPT ![r] = [rq EXCEPT !.pc = "nlp"]]
               ELSE /\ \E failed \in FaultChoices :
                         /\ ObserveArrival(r, sid, failed)
                         /\ \E outcome \in GetSessionOutcomes(sid, failed) :
                              req' = [req EXCEPT ![r] =
                                CASE outcome = "error" -> Fail500(rq)
                                  [] outcome = "null" ->
                                       Finish(rq, 404, "Session not found", FALSE)
                                  [] OTHER ->
                                       [rq EXCEPT !.pc = "am_read",
                                                  !.session = db[sid],
                                                  !.msg = Message("user", text, r),
                                                  !.after = "nlp"]]
                    /\ UNCHANGED heap
  /\ UNCHANGED <<engine, demoMode, sessions, db, resolutionLogs, nextSid, returned,
                 endedLog, escalatedReported>>

\* The handler's `session`: the registry's object in demo mode (kept by
\* reference also after the key is deleted), the copy getSession built
\* otherwise.
SessionOf(r) == IF demoMode THEN heap[req[r].sid] ELSE req[r].session

\* handleWrongOrderIntent: entities.orderId || session.orderIds[0] || null
WrongOrderId(text, session) ==
  IF extractEntitiesOrderId(text, session) # Null
    THEN extractEntitiesOrderId(text, session)
  ELSE IF Len(session.orderIds) > 0 THEN session.orderIds[1]
  ELSE Null

\* The handler calls addMessageToSession with the assistant's message.
CallAddAssistantMessage(rq, r, response) ==
  [rq EXCEPT !.pc = "am_read", !.response = response,
             !.msg = Message("assistant", response, r), !.after = "reply"]

\* After detectIntent, extractEntities and analyzeSentiment: the switch on
\* the intent type.  WRONG_ORDER calls handleWrongOrderIntent, which awaits
\* the order's details unless there is no order id; ESCALATION_REQUEST sets
\* session.escalated; every other intent has a canned reply.  In demo mode
\* the assistant message is pushed and the response sent at once.
ProcessMessage(r) ==
  /\ req[r].pc = "nlp"
  /\ LET sid == req[r].sid
         intent == detectIntent(req[r].text)
         orderId == WrongOrderId(req[r].text, SessionOf(r))
         escalated == SessionOf(r).escalated \/ intent = "ESCALATION_REQUEST"
         response == CannedResponse(intent)
     IN IF intent = "WRONG_ORDER"
          THEN /\ req' = [req EXCEPT ![r] =
                    IF orderId # Null
                      THEN [@ EXCEPT !.pc = "order", !.orderId = orderId]
                    ELSE IF demoMode
                      THEN [@ EXCEPT !.pc = "reply",
                                     !.response = "provide order number"]
                    ELSE CallAddAssistantMessage(@, r, "provide order number")]
               /\ UNCHANGED <<heap, escalatedReported, obs>>
        ELSE IF demoMode
          THEN /\ heap' = [heap EXCEPT ![sid] =
                    [@ EXCEPT !.escalated = escalated,
                              !.conversationHistory =
                                 Push(@, Message("assistant", response, r))]]
               /\ req' = [req EXCEPT ![r] = Finish(@, 200, response, escalated)]
               /\ ObserveTurnEnd(r, heap'[sid])
               /\ ReportEscalated(sid, escalated)
        ELSE /\ req' = [req EXCEPT ![r] =
                  CallAddAssistantMessage(
                     [@ EXCEPT !.session.escalated = escalated], r, response)]
             /\ UNCHANGED <<heap, escalatedReported, obs>>
  /\ UNCHANGED <<engine, demoMode, sessions, db, resolutionLogs, nextSid,
                 returned, endedLog>>

\* ------------------------------------------------ handleWrongOrderIntent

Resolution(orderId, amount, r) ==
  [ type |-> "REFUND", orderId |-> orderId, amount |-> amount,
    success |-> TRUE, req |-> r ]

\* What decisionEngine.verifyWrongOrderIssue says of the complaint a
\* resolution is recorded for.
ObserveResolution(r, orderDetails, customerInfo) ==
  obs' = [obs EXCEPT ![r] =
            [@ EXCEPT !.producedResolution = TRUE,
                      !.verified =
                         IF verifyWrongOrderIssue(orderDetails, <<>>,
                                                  customerInfo).verified
                           THEN "yes" ELSE "no"]]

\* The catch block of handleWrongOrderIntent: the apology is the reply.
TechnicalIssue(rq, r) ==
  CallAddAssistantMessage(rq, r, "technical issue")

\* orderManager.getOrderDetails answers.  Demo mode: the resolution is
\* pushed to session.resolutions and the function returns its reply.
\* Otherwise addResolutionToSession is called.
FetchOrder(r) ==
  /\ req[r].pc = "order"
  /\ \E failed \in FaultChoices :
       LET details == getOrderDetails(demoMode, req[r].orderId, failed)
       IN IF demoMode
               THEN /\ heap' = [heap EXCEPT ![req[r].sid].resolutions =
                         Push(@, Resolution(req[r].orderId, details.totalAmount, r))]
                    /\ req' = [req EXCEPT ![r] =
                         [@ EXCEPT !.pc = "reply", !.response = "full refund processed"]]
                    /\ ObserveResolution(r, details, heap[req[r].sid].customerInfo)
               ELSE /\ req' = [req EXCEPT ![r] =
                         [@ EXCEPT !.pc = "ar_read", !.orderDetails = details]]
                    /\ UNCHANGED <<heap, obs>>
  /\ UNCHANGED <<engine, demoMode, sessions, db, resolutionLogs, nextSid, returned,
                 endedLog, escalatedReported>>

\* database.addResolutionToSession: the select of resolutions.
AddResolutionRead(r) ==
  /\ req[r].pc = "ar_read"
  /\ \E failed \in FaultChoices :
       /\ req' = [req EXCEPT ![r] =
            IF failed \/ req[r].sid \notin DOMAIN db
              THEN TechnicalIssue(@, r)
              ELSE [@ EXCEPT !.pc = "ar_write",
                             !.buf = db[req[r].sid].resolutions]]
  /\ UNCHANGED <<engine, demoMode, sessions, heap, db, resolutionLogs, nextSid,
                 returned, endedLog, escalatedReported, obs>>

\* database.addResolutionToSession: resolutions.push(resolution) on the
\* array read, then the update that writes the whole array back.
AddResolutionWrite(r) ==
  /\ req[r].pc = "ar_write"
  /\ \E failed \in FaultChoices :
       /\ IF failed
            THEN /\ req' = [req EXCEPT ![r] = TechnicalIssue(@, r)]
                 /\ UNCHANGED <<db, obs>>
            ELSE /\ db' = [db EXCEPT ![req[r].sid].resolutions =
                      Push(req[r].buf,
                           Resolution(req[r].orderId,
                                      req[r].orderDetails.totalAmount, r))]
                 /\ req' = [req EXCEPT ![r] = [@ EXCEPT !.pc = "log", !.buf = <<>>]]
                 /\ ObserveResolution(r, req[r].orderDetails,
                                      req[r].session.customerInfo)
  /\ UNCHANGED <<engine, demoMode, sessions, heap, resolutionLogs, nextSid, returned,
                 endedLog, escalatedReported>>

\* database.logResolution: the insert into resolution_logs; then the
\* function returns its reply and the handler appends it.
LogResolution(r) ==
  /\ req[r].pc = "log"
  /\ \E failed \in FaultChoices :
       /\ IF failed
            THEN /\ req' = [req EXCEPT ![r] = TechnicalIssue(@, r)]
                 /\ UNCHANGED resolutionLogs
            ELSE /\ resolutionLogs' = Push(resolutionLogs,
                      [ sessionId |-> req[r].sid, orderId |-> req[r].orderId,
                        amount |-> req[r].orderDetails.totalAmount ])
                 /\ req' = [req EXCEPT ![r] =
                      CallAddAssistantMessage(@, r, "full refund processed")]
  /\ UNCHANGED <<engine, demoMode, sessions, heap, db, nextSid, returned, endedLog,
                 escalatedReported, obs>>

\* Demo mode, after `await handleWrongOrderIntent(...)`: the assistant
\* message is pushed and the response sent.
Reply(r) ==
  /\ req[r].pc = "reply"
  /\ heap' = [heap EXCEPT ![req[r].sid].conversationHistory =
                Push(@, Message("assistant", req[r].response, r))]
  /\ req' = [req EXCEPT ![r] =
               Finish(@, 200, @.response, heap[req[r].sid].escalated)]
  /\ ObserveTurnEnd(r, heap'[req[r].sid])
  /\ ReportEscalated(req[r].sid, heap[req[r].sid].escalated)
  /\ UNCHANGED <<engine, demoMode, sessions, db, resolutionLogs, nextSid,
                 returned, endedLog>>

\* ------------------------------------------- POST /api/conversation/end

\* The message and resolution logs of the stored session.
LogsOf(session) ==
  [ messages |-> session.conversationHistory,
    resolutions |-> session.resolutions ]

\* EndSession has returned success: PostMessage calls suspended at the
\* await of the language processing or of the order fetch are overtaken.
ObserveEnd(r, sid) ==
  obs' = [q \in ReqIds |->
            IF /\ req[q].op = "message" /\ req[q].sid = sid
               /\ req[q].pc \in {"nlp", "order"}
              THEN [obs[q] EXCEPT !.overtaken = TRUE]
            ELSE IF q = r THEN [obs[q] EXCEPT !.known = TRUE]
            ELSE obs[q]]

\* The handler up to its first await.  Demo mode: the key is deleted from
\* the registry and the response sent.  Otherwise database.getSession
\* answers and updateSession is called.
EndSession(r) ==
  /\ CanIssue(r)
  /\ \E sid \in returned \cup {UnknownSid} :
       LET rq == [IdleReq EXCEPT !.op = "end", !.sid = sid]
       IN IF demoMode
            THEN /\ IF sid \notin sessions
                      THEN /\ req' = [req EXCEPT ![r] =
                                Finish(rq, 404, "Session not found", FALSE)]
                           /\ ObserveArrival(r, sid, FALSE)
                           /\ UNCHANGED <<sessions, endedLog>>
                      ELSE /\ sessions' = sessions \ {sid}
                           /\ req' = [req EXCEPT ![r] = Finish(rq, 200, "success", FALSE)]
                           /\ endedLog' = endedLog @@ (sid :> LogsOf(heap[sid]))
                           /\ ObserveEnd(r, sid)
            ELSE /\ \E failed \in FaultChoices :
                      /\ ObserveArrival(r, sid, failed)
                      /\ \E outcome \in GetSessionOutcomes(sid, failed) :
                           req' = [req EXCEPT ![r] =
                             CASE outcome = "error" -> Fail500(rq)
                               [] outcome = "null" ->
                                    Finish(rq, 404, "Session not found", FALSE)
                               [] OTHER -> [rq EXCEPT !.pc = "end_update",
                                                      !.session = db[sid]]]
                 /\ UNCHANGED <<sessions, endedLog>>
  /\ UNCHANGED <<engine, demoMode, heap, db, resolutionLogs, nextSid, returned,
                 escalatedReported>>

\* database.updateSession(sessionId, {status: 'ended'}), then the response.
UpdateEnded(r) ==
  /\ req[r].pc = "end_update"
  /\ \E failed \in FaultChoices :
       /\ IF failed
            THEN /\ req' = [req EXCEPT ![r] = Fail500(@)]
                 /\ UNCHANGED <<db, endedLog, obs>>
            ELSE /\ db' = [db EXCEPT ![req[r].sid].status = "ended"]
                 /\ req' = [req EXCEPT ![r] = Finish(@, 200, "success", FALSE)]
                 /\ endedLog' =
                      IF req[r].sid \in DOMAIN endedLog THEN endedLog
                      ELSE endedLog @@ (req[r].sid :> LogsOf(db[req[r].sid]))
                 /\ ObserveEnd(r, req[r].sid)
  /\ UNCHANGED <<engine, demoMode, sessions, heap, resolutionLogs, nextSid, returned,
                 escalatedReported>>

\* ---------------------------------------------------------- specification

\* A request arrives: the handler runs to its first await.
Issue(r) ==
  \/ StartSession(r)
  \/ ReceiveMessage(r)
  \/ EndSession(r)

\* A suspended handler resumes and runs to its next await or to its end.
Resume(r) ==
  \/ StoreSession(r)
  \/ AddMessageRead(r)
  \/ AddMessageWrite(r)
  \/ ProcessMessage(r)
  \/ FetchOrder(r)
  \/ AddResolutionRead(r)
  \/ AddResolutionWrite(r)
  \/ LogResolution(r)
  \/ Reply(r)
  \/ UpdateEnded(r)

Next == \E r \in ReqIds : Issue(r) \/ Resume(r)

\* Requests arrive at any time: handlers interleave at their awaits.
Spec == Init /\ [][Next]_vars

InFlight == {r \in ReqIds : req[r].op # "none" /\ req[r].pc # "done"}

SeqNext ==
  \E r \in ReqIds :
     \/ InFlight = {} /\ StartSession(r)
     \/ InFlight = {} /\ ReceiveMessage(r)
     \/ InFlight = {} /\ EndSession(r)
     \/ Resume(r)

\* Sequential use: a request arrives only when none is in flight.
SeqSpec == Init /\ [][SeqNext]_vars

\* ------------------------------------------- the decision engine alone

\* The item lists of the orders given to the engine.
Pizza == [name |-> "Margherita Pizza", price |-> 299, quantity |-> 1]
FreeDip == [name |-> "Free Dip", price |-> 0, quantity |-> 1]
ItemLists == {Undefined, Defined(<<Pizza>>), Defined(<<Pizza, FreeDip>>)}

\* deliveredAt and estimatedDeliveryTime of those orders: not delivered,
\* or delivered some minutes ago, that many minutes after the estimate.
DeliveredMinutesAgo == {30, 120, 3 * 24 * 60}
LateBy == {9, 10, 11}
DeliveryTimes ==
  {[deliveredAt |-> DeliveredNull, estimatedDeliveryTime |-> DeliveredAgo(20)]}
  \cup {[deliveredAt |-> DeliveredAgo(m),
         estimatedDeliveryTime |-> DeliveredAgo(m + late)] :
           m \in DeliveredMinutesAgo, late \in LateBy}

TotalAmounts == {200, 500, 1200}

EngineOrders ==
  {UndefinedOrder} \cup
  {[ id |-> "order", totalAmount |-> total, deliveredAt |-> t.deliveredAt,
     problemFlag |-> flag, estimatedDeliveryTime |-> t.estimatedDeliveryTime,
     restaurantOpen |-> open, items |-> items, deliveryFee |-> fee,
     refunded |-> FALSE, orderedAt |-> OrderedAgo(1) ] :
       total \in TotalAmounts, t \in DeliveryTimes, flag \in BOOLEAN,
       open \in BOOLEAN, items \in ItemLists, fee \in {Undefined, Num(49)}}

EngineCustomers ==
  {UndefinedCustomer} \cup
  {[ id |-> "customer", membershipTier |-> tier, fraudRiskScore10 |-> Num(fraud),
     complaintFrequency |-> Num(1) ] :
       tier \in {"REGULAR", "PRO", "PRO_PLUS"}, fraud \in {2, 9}}

\* The item names a complaint claims, and the lateness it states.
ItemClaims ==
  {Undefined, Defined(<<>>), Defined(<<"Pizza">>),
   Defined(<<"margherita pizza">>), Defined(<<"dip">>), Defined(<<"burger">>)}
LatenessClaims ==
  {Undefined} \cup {Num(n) : n \in {10, 15, 16, 30, 31, 60, 61, 90, 91}}

EngineInit ==
  /\ demoMode = TRUE
  /\ sessions = {}
  /\ heap = <<>>
  /\ db = <<>>
  /\ resolutionLogs = <<>>
  /\ nextSid = 0
  /\ req = [r \in ReqIds |-> IdleReq]
  /\ returned = {}
  /\ endedLog = <<>>
  /\ escalatedReported = {}
  /\ obs = [r \in ReqIds |-> IdleObs]
  /\ \E orderDetails \in EngineOrders, customerInfo \in EngineCustomers :
        engine = [IdleEngine EXCEPT !.orderDetails = orderDetails,
                                    !.customerInfo = customerInfo]

\* The server's state, which the engine does not touch.
serverVars == <<demoMode, sessions, heap, db, resolutionLogs, nextSid, req,
                returned, endedLog, escalatedReported, obs>>

VerifyWrongOrder ==
  /\ engine.fn = "none"
  /\ UNCHANGED serverVars
  /\ engine' = [engine EXCEPT
        !.fn = "verifyWrongOrderIssue",
        !.verification =
           verifyWrongOrderIssue(engine.orderDetails, <<>>, engine.customerInfo)]

VerifyMissingItem ==
  /\ engine.fn = "none"
  /\ UNCHANGED serverVars
  /\ \E missingItems \in ItemClaims :
        engine' = [engine EXCEPT
           !.fn = "verifyMissingItemIssue",
           !.itemNames = missingItems,
           !.verification =
              verifyMissingItemIssue(engine.orderDetails, missingItems,
                                     engine.customerInfo)]

VerifyLateDelivery ==
  /\ engine.fn = "none"
  /\ UNCHANGED serverVars
  /\ engine' = [engine EXCEPT
        !.fn = "verifyLateDeliveryIssue",
        !.verification =
           verifyLateDeliveryIssue(engine.orderDetails, engine.customerInfo)]

IssueTypes == {"WRONG_ORDER", "MISSING_ITEM", "LATE_DELIVERY", "QUALITY_ISSUE"}

\* The entities a caller passes for an issue type.
EntitiesOf(issueType) ==
  CASE issueType = "WRONG_ORDER" ->
         {[NoEntities EXCEPT !.wrongItems = names] : names \in ItemClaims}
    [] issueType = "MISSING_ITEM" ->
         {[NoEntities EXCEPT !.missingItems = names] : names \in ItemClaims}
    [] issueType = "LATE_DELIVERY" ->
         {[NoEntities EXCEPT !.latenessMinutes = late] : late \in LatenessClaims}
    [] OTHER -> {NoEntities}

DecideSolution ==
  /\ engine.fn = "none"
  /\ UNCHANGED serverVars
  /\ \E issueType \in IssueTypes :
       \E entities \in EntitiesOf(issueType) :
          engine' = [engine EXCEPT
             !.fn = "decideSolution",
             !.issueType = issueType,
             !.entities = entities,
             !.solution = decideSolution(issueType, engine.orderDetails,
                                         engine.customerInfo, entities)]

CalculateAffectedItemsAmount ==
  /\ engine.fn = "none"
  /\ UNCHANGED serverVars
  /\ engine.orderDetails # UndefinedOrder
  /\ \E itemNames \in ItemClaims :
        engine' = [engine EXCEPT
           !.fn = "calculateAffectedItemsAmount",
           !.itemNames = itemNames,
           !.threw = CalculateThrows(engine.orderDetails, itemNames),
           !.amount =
              IF CalculateThrows(engine.orderDetails, itemNames) THEN 0
              ELSE calculateAffectedItemsAmount(engine.orderDetails, itemNames)]

\* The refunded flag and the age in hours of the orders checked for a refund.
OrderedHoursAgo == {24, 25, 72, 73, 168, 169}

CheckRefundEligibility ==
  /\ engine.fn = "none"
  /\ UNCHANGED serverVars
  /\ \E refunded \in BOOLEAN, hours \in OrderedHoursAgo :
        LET orderDetails ==
              IF engine.orderDetails = UndefinedOrder THEN UndefinedOrder
              ELSE [engine.orderDetails EXCEPT !.refunded = refunded,
                                               !.orderedAt = OrderedAgo(hours)]
        IN engine' = [engine EXCEPT
              !.fn = "checkRefundEligibility",
              !.orderDetails = orderDetails,
              !.eligibility =
                 checkRefundEligibility(orderDetails, engine.customerInfo)]

EngineNext ==
  \/ CheckRefundEligibility
  \/ VerifyWrongOrder
  \/ VerifyMissingItem
  \/ VerifyLateDelivery
  \/ DecideSolution
  \/ CalculateAffectedItemsAmount

\* The decision engine called on its own, once, with any arguments.
EngineSpec == EngineInit /\ [][EngineNext]_vars

\* ---------------------------------------- the escalation manager alone

\* The sessions given to the escalation manager.
PolicyCustomers ==
  {UndefinedCustomer, PlaceholderCustomer("customer")} \cup
  {[ id |-> "customer", membershipTier |-> tier, fraudRiskScore10 |-> Num(2),
     complaintFrequency |-> Num(frequency) ] :
       tier \in {"REGULAR", "PRO", "PRO_PLUS"}, frequency \in {3, 4}}

PolicyMessages ==
  {Message(role, content, 0) :
     role \in {"user", "assistant"},
     content \in {"hello", "This is USELESS, let me talk to a supervisor",
                  "Are you a bot"}}

PolicyHistories ==
  {UndefinedHistory, <<>>,
   [i \in 1..10 |-> Message("user", "hello", 0)],
   [i \in 1..11 |-> Message("user", "hello", 0)]}
  \cup {<<m>> : m \in PolicyMessages}
  \cup {<<m, n>> : m \in PolicyMessages, n \in PolicyMessages}

PolicyOrder(totalAmount) ==
  [ id |-> "order", totalAmount |-> totalAmount, deliveredAt |-> DeliveredNull,
    problemFlag |-> FALSE ]

PolicyOrderDetails ==
  {<<>>, <<PolicyOrder(1000)>>, <<PolicyOrder(500), PolicyOrder(1001)>>}

PolicyResolutions ==
  {<<>>, <<Resolution("order", 500, 0)>>,
   <<Resolution("order", 500, 0), Resolution("order", 500, 0)>>}

PolicySessions ==
  {[SessionData(customerInfo, <<>>, orderDetails) EXCEPT
      !.conversationHistory = history, !.resolutions = resolutions] :
     customerInfo \in PolicyCustomers, orderDetails \in PolicyOrderDetails,
     history \in PolicyHistories, resolutions \in PolicyResolutions}

PolicyInit ==
  /\ demoMode = TRUE
  /\ sessions = {}
  /\ heap = <<>>
  /\ db = <<>>
  /\ resolutionLogs = <<>>
  /\ nextSid = 0
  /\ req = [r \in ReqIds |-> IdleReq]
  /\ returned = {}
  /\ endedLog = <<>>
  /\ escalatedReported = {}
  /\ obs = [r \in ReqIds |-> IdleObs]
  /\ engine = IdleEngine

ShouldAutoEscalate ==
  /\ engine.fn = "none"
  /\ UNCHANGED serverVars
  /\ \E session \in PolicySessions :
        engine' = [engine EXCEPT !.fn = "shouldAutoEscalate",
                                 !.session = session,
                                 !.escalate = shouldAutoEscalate(session)]

DeterminePriority ==
  /\ engine.fn = "none"
  /\ UNCHANGED serverVars
  /\ \E session \in PolicySessions :
        engine' = [engine EXCEPT !.fn = "determinePriority",
                                 !.session = session,
                                 !.priority = determinePriority(session)]

PolicyNext ==
  \/ ShouldAutoEscalate
  \/ DeterminePriority

\* The escalation manager called on its own, once, with any session.
PolicySpec == PolicyInit /\ [][PolicyNext]_vars

\* ------------------------------------------------------------ properties

Tagged(log, r) == \E i \in DOMAIN log : log[i].req = r

IsPrefix(s, t) == Len(s) <= Len(t) /\ SubSeq(t, 1, Len(s)) = s

SessionExists(sid) == IF demoMode THEN sid \in sessions ELSE sid \in DOMAIN db

StoredLogs(sid) == LogsOf(Stored[sid])

MessageReqs == {r \in ReqIds : req[r].op = "message"}

\* C1: once EndSession(sessionId) has returned success, a PostMessage that
\* arrives later for that id does not succeed and appends nothing to the
\* session's message log or resolution log.
C1_NoPostAfterEnd ==
  \A r \in MessageReqs :
     obs[r].afterEnd =>
        /\ req[r].status # 200
        /\ ~Tagged(StoredLogs(req[r].sid).messages, r)
        /\ ~Tagged(StoredLogs(req[r].sid).resolutions, r)

\* C2: a PostMessage that EndSession overtook while it was suspended at an
\* await does not report success, and none of its entries is in the
\* session's logs unless it was there when EndSession returned.
C2_OvertakenPostStops ==
  \A r \in MessageReqs :
     obs[r].overtaken =>
        /\ req[r].status # 200
        /\ \A i \in DOMAIN StoredLogs(req[r].sid).messages :
              StoredLogs(req[r].sid).messages[i].req = r =>
                 /\ i \in DOMAIN endedLog[req[r].sid].messages
                 /\ endedLog[req[r].sid].messages[i] =
                       StoredLogs(req[r].sid).messages[i]
        /\ \A i \in DOMAIN StoredLogs(req[r].sid).resolutions :
              StoredLogs(req[r].sid).resolutions[i].req = r =>
                 i \in DOMAIN endedLog[req[r].sid].resolutions

AllPostsDone(sid) ==
  \A q \in MessageReqs : req[q].sid = sid => req[q].pc = "done"

\* C3: when all PostMessage calls on a session have completed, the message
\* log holds the user message and the assistant message of each successful
\* call, and the resolution log every Resolution such a call produced.
C3_NoLostAppend ==
  \A r \in MessageReqs :
     (req[r].status = 200 /\ AllPostsDone(req[r].sid)) =>
        /\ \E i \in DOMAIN StoredLogs(req[r].sid).messages :
              /\ StoredLogs(req[r].sid).messages[i].role = "user"
              /\ StoredLogs(req[r].sid).messages[i].req = r
        /\ \E i \in DOMAIN StoredLogs(req[r].sid).messages :
              StoredLogs(req[r].sid).messages[i] =
                 Message("assistant", req[r].response, r)
        /\ obs[r].producedResolution =>
              Tagged(StoredLogs(req[r].sid).resolutions, r)

\* C4: a successful PostMessage has appended its user message and its
\* assistant message next to each other, the reply right after the message.
C4_PairAdjacent ==
  \A r \in MessageReqs :
     req[r].status = 200 =>
        \E i \in DOMAIN StoredLogs(req[r].sid).messages :
           /\ StoredLogs(req[r].sid).messages[i].role = "user"
           /\ StoredLogs(req[r].sid).messages[i].req = r
           /\ i + 1 \in DOMAIN StoredLogs(req[r].sid).messages
           /\ StoredLogs(req[r].sid).messages[i + 1] =
                 Message("assistant", req[r].response, r)

\* C5: once a PostMessage response has reported escalated=true for a
\* session, every PostMessage that arrives later for it and succeeds
\* reports escalated=true.
C5_EscalatedSticks ==
  \A r \in MessageReqs :
     (obs[r].afterEscalated /\ req[r].status = 200) => req[r].escalated

\* C6: under sequential calls, as long as a session exists, every step
\* leaves its message log and its resolution log a prefix of what they
\* become.
C6_LogsOnlyGrow ==
  [][\A sid \in Sids :
        (SessionExists(sid) /\ SessionExists(sid)') =>
           /\ IsPrefix(StoredLogs(sid).messages, StoredLogs(sid).messages')
           /\ IsPrefix(StoredLogs(sid).resolutions, StoredLogs(sid).resolutions')
    ]_vars

\* C6 witness: a stored session whose logs have grown over two turns, one
\* of them a wrong-order complaint.
C6_Witness ==
  \E sid \in Sids :
     /\ SessionExists(sid)
     /\ Len(StoredLogs(sid).messages) >= 5
     /\ Len(StoredLogs(sid).resolutions) >= 1

\* C7: unless the lookup call itself fails, PostMessage and EndSession for a
\* session id no StartSession returned answer 404, and no session comes to
\* exist under that id.
C7_UnknownIsNotFound ==
  /\ UnknownSid \notin sessions \cup DOMAIN heap \cup DOMAIN db
  /\ \A r \in ReqIds :
        ( /\ req[r].op \in {"message", "end"}
          /\ req[r].pc = "done"
          /\ ~obs[r].known
          /\ ~obs[r].lookupFailed ) => req[r].status = 404

\* C8: a PostMessage that arrives for an existing session that has not
\* been ended answers with success.
C8_PostAlwaysSucceeds ==
  \A r \in MessageReqs :
     (req[r].pc = "done" /\ obs[r].known /\ ~obs[r].afterEnd) =>
        req[r].status = 200

\* C9: when shouldAutoEscalate holds of the stored session at the end of a
\* successful turn, the stored escalated flag is true and the response
\* reports escalated=true.
C9_PolicyAppliedEachTurn ==
  \A r \in MessageReqs :
     (req[r].status = 200 /\ obs[r].shouldAuto) =>
        (req[r].escalated /\ obs[r].storedEscalated)

\* C10: a Resolution is recorded for an order only if verifyWrongOrderIssue
\* returns verified=true for that order and customer.
C10_ResolutionOnlyIfVerified ==
  \A r \in MessageReqs :
     obs[r].producedResolution => obs[r].verified = "yes"

\* Request r is the last one issued.
LastIssued(r) == \A q \in ReqIds : q > r => req[q].op = "none"

\* C11: right after StartSession has returned, the stored session is
\* active, not escalated, and both its message log and its resolution log
\* are empty.
C11_FreshSessionEmpty ==
  \A r \in ReqIds :
     (req[r].op = "start" /\ req[r].status = 200 /\ LastIssued(r)) =>
        /\ Stored[req[r].sid].status = "active"
        /\ ~Stored[req[r].sid].escalated
        /\ Stored[req[r].sid].resolutions = <<>>
        /\ Stored[req[r].sid].conversationHistory = <<>>

\* C12: right after a successful turn classified ESCALATION_REQUEST on a
\* session that was not ended, the session's escalated flag is true and
\* reported true, its status is active and the turn has added no resolution.
C12_EscalationFrame ==
  \A r \in MessageReqs :
     ( /\ req[r].status = 200
       /\ req[r].response = CannedResponse("ESCALATION_REQUEST")
       /\ ~obs[r].afterEnd
       /\ LastIssued(r) ) =>
        /\ req[r].escalated
        /\ Stored[req[r].sid].escalated
        /\ Stored[req[r].sid].status = "active"
        /\ ~Tagged(Stored[req[r].sid].resolutions, r)

VerifyCalls ==
  {"verifyWrongOrderIssue", "verifyMissingItemIssue", "verifyLateDeliveryIssue"}

\* C13: when the order is flagged as problematic or the customer's tier is
\* PRO or PRO_PLUS, each of the three verify functions returns verified=true.
C13_TrustShortcutFirst ==
  ( /\ engine.fn \in VerifyCalls
    /\ engine.orderDetails # UndefinedOrder
    /\ \/ engine.orderDetails.problemFlag
       \/ engine.customerInfo.membershipTier \in {"PRO", "PRO_PLUS"} ) =>
     engine.verification.verified

\* C14: verifyLateDeliveryIssue returns verified=false for every order
\* delivered at most 10 minutes after its estimated delivery time.
C14_AcceptableLatenessRejected ==
  ( /\ engine.fn = "verifyLateDeliveryIssue"
    /\ engine.orderDetails # UndefinedOrder
    /\ \E late \in LatenessMinutes(engine.orderDetails) : late <= 10 ) =>
     ~engine.verification.verified

\* The order, its item list, the claimed names or the customer is missing
\* where the call reads it.
VerifyFault ==
  \/ engine.orderDetails = UndefinedOrder
  \/ /\ engine.fn = "verifyMissingItemIssue"
     /\ \/ engine.orderDetails.items = Undefined
        \/ engine.itemNames = Undefined
  \/ /\ engine.fn = "verifyWrongOrderIssue"
     /\ engine.customerInfo = UndefinedCustomer
     /\ ~engine.orderDetails.problemFlag

\* C15: each verify function returns a result with a verdict and a reason
\* for every argument, and the result is verified=true with the
\* benefit-of-doubt reason when a missing argument makes the rules fault.
C15_VerifyNeverRaises ==
  engine.fn \in VerifyCalls =>
     /\ engine.verification.verified \in BOOLEAN
     /\ engine.verification.reason # Null
     /\ VerifyFault =>
           /\ engine.verification.verified
           /\ engine.verification.reason =
                 "Verification error, giving benefit of doubt to customer"

\* C15 witness: verifyMissingItemIssue was called for an order without an
\* item list and gave the benefit of the doubt.
C15_Witness ==
  /\ engine.fn = "verifyMissingItemIssue"
  /\ engine.orderDetails # UndefinedOrder
  /\ engine.orderDetails.items = Undefined
  /\ engine.verification.verified

\* decideSolution was called for a delivered order with its item list and
\* for a known customer.
DecidedWellFormed ==
  /\ engine.fn = "decideSolution"
  /\ engine.orderDetails # UndefinedOrder
  /\ engine.orderDetails.items # Undefined
  /\ engine.orderDetails.deliveredAt.kind = "date"
  /\ engine.customerInfo # UndefinedCustomer

\* The affected amount of a wrong-order or missing-item complaint, in
\* hundredths: the order total for a wrong order with no items claimed.
ClaimedAffectedAmount ==
  IF /\ engine.issueType = "WRONG_ORDER"
     /\ \A names \in engine.entities.wrongItems : names = <<>>
    THEN 100 * engine.orderDetails.totalAmount
  ELSE calculateAffectedItemsAmount(
          engine.orderDetails,
          IF engine.issueType = "WRONG_ORDER" THEN engine.entities.wrongItems
          ELSE engine.entities.missingItems)

C17_LateCompensation ==
  ( /\ engine.fn = "decideSolution"
    /\ engine.issueType = "LATE_DELIVERY"
    /\ engine.orderDetails # UndefinedOrder ) =>
     \A late \in engine.entities.latenessMinutes :
        IF late > 90
          THEN /\ engine.solution.type = "REFUND"
               /\ engine.solution.amount = 100 * engine.orderDetails.totalAmount
          ELSE /\ engine.solution.type = "CREDIT"
               /\ engine.solution.amount =
                     Min(engine.orderDetails.totalAmount
                           * (CASE late > 60 -> 30
                                [] late > 30 /\ late <= 60 -> 20
                                [] late > 15 /\ late <= 30 -> 10
                                [] OTHER -> 0),
                         200 * 100)

\* C17 witness: a 500-rupee order 90 minutes late is credited 150.
C17_Witness ==
  /\ engine.fn = "decideSolution"
  /\ engine.issueType = "LATE_DELIVERY"
  /\ engine.orderDetails.totalAmount = 500
  /\ engine.entities.latenessMinutes = {90}
  /\ engine.solution.type = "CREDIT"
  /\ engine.solution.amount = 150 * 100

\* decideSolution faults: the order is missing, the item list is missing
\* where the affected amount needs it, or the customer is missing where
\* the tier is read.
DecideFault ==
  \/ engine.orderDetails = UndefinedOrder
  \/ /\ engine.issueType \in {"WRONG_ORDER", "MISSING_ITEM"}
     /\ \/ CalculateThrows(engine.orderDetails,
                           AffectedNames(engine.issueType, engine.entities))
        \/ /\ engine.customerInfo = UndefinedCustomer
           /\ ~RedeliveryIsPossible(engine.orderDetails)

\* C18: for an issue type other than WRONG_ORDER, MISSING_ITEM and
\* LATE_DELIVERY, and when deciding faults, decideSolution returns CREDIT
\* of the order's delivery fee, or of 50 when the order has none.
C18_FallbackCredit ==
  ( /\ engine.fn = "decideSolution"
    /\ \/ engine.issueType = "QUALITY_ISSUE"
       \/ DecideFault ) =>
     /\ engine.solution.type = "CREDIT"
     /\ engine.solution.amount =
           IF engine.orderDetails.deliveryFee = {} THEN 50 * 100
           ELSE 100 * ValueOf(engine.orderDetails.deliveryFee)

\* C19: every Solution of decideSolution has a non-negative amount, and a
\* REFUND Solution an amount of at most the order total.
C19_AmountBounds ==
  (engine.fn = "decideSolution" /\ engine.orderDetails # UndefinedOrder) =>
     /\ engine.solution.amount >= 0
     /\ engine.solution.type = "REFUND" =>
           engine.solution.amount <= 100 * engine.orderDetails.totalAmount

\* Order item i carries one of the claimed names.
ItemMatches(i) ==
  \E names \in engine.itemNames :
     \E n \in DOMAIN names :
        StringIncludes(toLowerCase(ValueOf(engine.orderDetails.items)[i].name),
                       toLowerCase(names[n]))

\* C20: calculateAffectedItemsAmount returns 0 for an empty claim set, the
\* sum of price * quantity over the matching items when an item matches,
\* and 0.3 * totalAmount when names are claimed and no item matches.
C20_AffectedItemsAmount ==
  (engine.fn = "calculateAffectedItemsAmount" /\ ~engine.threw) =>
     IF \A names \in engine.itemNames : names = <<>>
       THEN engine.amount = 0
     ELSE IF \E i \in DOMAIN ValueOf(engine.orderDetails.items) : ItemMatches(i)
       THEN engine.amount =
               100 * MatchedTotal(ValueOf(engine.orderDetails.items),
                                  ValueOf(engine.itemNames))
     ELSE engine.amount = 30 * engine.orderDetails.totalAmount

\* C21: checkRefundEligibility returns not eligible for a refunded order
\* and for an order more than 7 days old; otherwise eligible with amount =
\* percentage * totalAmount / 100, the percentage being 100 for PRO and
\* PRO_PLUS, and else 100 up to 1 day, 75 up to 3 days and 50 up to 7 days;
\* the amount is at most totalAmount.
C21_RefundEligibility ==
  ( /\ engine.fn = "checkRefundEligibility"
    /\ engine.orderDetails # UndefinedOrder
    /\ engine.customerInfo # UndefinedCustomer ) =>
     LET hours == engine.orderDetails.orderedAt.hoursAgo
         percentage ==
           IF engine.customerInfo.membershipTier \in {"PRO", "PRO_PLUS"} THEN 100
           ELSE IF hours <= 24 THEN 100
           ELSE IF hours <= 3 * 24 THEN 75
           ELSE 50
     IN IF engine.orderDetails.refunded \/ hours > 7 * 24
          THEN ~engine.eligibility.eligible
          ELSE /\ engine.eligibility.eligible
               /\ engine.eligibility.percentage = percentage
               /\ engine.eligibility.amount
                     = percentage * engine.orderDetails.totalAmount
               /\ engine.eligibility.amount
                     <= 100 * engine.orderDetails.totalAmount

\* C21 witness: a REGULAR customer's order, 73 hours old and not refunded,
\* is eligible for 50 percent.
C21_Witness ==
  /\ engine.fn = "checkRefundEligibility"
  /\ engine.customerInfo.membershipTier = "REGULAR"
  /\ engine.orderDetails.orderedAt.hoursAgo = 73
  /\ engine.eligibility.eligible
  /\ engine.eligibility.percentage = 50

\* The session given to the escalation manager has its customer and its
\* message log.
PolicyWellFormed ==
  /\ engine.session.customerInfo # UndefinedCustomer
  /\ engine.session.conversationHistory # UndefinedHistory

\* Some order of the session given exceeds 1000.
HasOrderAbove1000 ==
  \E i \in DOMAIN engine.session.orderDetails :
     engine.session.orderDetails[i].totalAmount > 1000

\* C22: shouldAutoEscalate returns true exactly when the tier is PRO_PLUS,
\* or at least 2 user messages contain a frustration phrase, or some order
\* exceeds 1000, or the session has at least 2 resolutions.
C22_AutoEscalateIff ==
  (engine.fn = "shouldAutoEscalate" /\ PolicyWellFormed) =>
     ( engine.escalate <=>
         \/ engine.session.customerInfo.membershipTier = "PRO_PLUS"
         \/ Cardinality(
              {i \in DOMAIN engine.session.conversationHistory :
                 /\ engine.session.conversationHistory[i].role = "user"
                 /\ FrustrationIndicatorsIn(
                       engine.session.conversationHistory[i].content) # {}}) >= 2
         \/ HasOrderAbove1000
         \/ Len(engine.session.resolutions) >= 2 )

\* C22 witness: one user message with two frustration phrases and no other
\* trigger: not escalated.
C22_Witness ==
  /\ engine.fn = "shouldAutoEscalate"
  /\ engine.session.customerInfo.membershipTier = "REGULAR"
  /\ engine.session.conversationHistory =
        <<Message("user", "This is USELESS, let me talk to a supervisor", 0)>>
  /\ ~HasOrderAbove1000
  /\ Len(engine.session.resolutions) = 1
  /\ ~engine.escalate

\* C23: determinePriority returns HIGH exactly when the tier is PRO or
\* PRO_PLUS, or the message log has more than 10 messages, or some order
\* exceeds 1000, or complaintFrequency > 3; otherwise MEDIUM, never LOW.
C23_PriorityIff ==
  (engine.fn = "determinePriority" /\ PolicyWellFormed) =>
     /\ engine.priority \in {"HIGH", "MEDIUM"}
     /\ engine.priority = "HIGH" <=>
          \/ engine.session.customerInfo.membershipTier \in {"PRO", "PRO_PLUS"}
          \/ Len(engine.session.conversationHistory) > 10
          \/ HasOrderAbove1000
          \/ \E frequency \in engine.session.customerInfo.complaintFrequency :
                frequency > 3

\* C23 witness: 11 messages and no other trigger: HIGH.
C23_Witness ==
  /\ engine.fn = "determinePriority"
  /\ engine.session.customerInfo.membershipTier = "REGULAR"
  /\ engine.session.customerInfo.complaintFrequency = {3}
  /\ Len(engine.session.conversationHistory) = 11
  /\ ~HasOrderAbove1000
  /\ engine.priority = "HIGH"

\* C30: shouldAutoEscalate and determinePriority return a result for every
\* session; when the session's customer is missing, or its message log is
\* missing where it is read, shouldAutoEscalate returns false and
\* determinePriority returns MEDIUM.
C30_PolicyFailsClosed ==
  /\ engine.fn = "shouldAutoEscalate" =>
        /\ engine.escalate \in BOOLEAN
        /\ ( \/ engine.session.customerInfo = UndefinedCustomer
             \/ /\ engine.session.conversationHistory = UndefinedHistory
                /\ engine.session.customerInfo.membershipTier # "PRO_PLUS" ) =>
              engine.escalate = FALSE
  /\ engine.fn = "determinePriority" =>
        /\ engine.priority \in {"HIGH", "MEDIUM"}
        /\ ( \/ engine.session.customerInfo = UndefinedCustomer
             \/ /\ engine.session.conversationHistory = UndefinedHistory
                /\ engine.session.customerInfo.membershipTier
                      \notin {"PRO", "PRO_PLUS"} ) =>
              engine.priority = "MEDIUM"

\* C30 witness: determinePriority on a session without customerInfo, with
\* an order above 1000, answered MEDIUM.
C30_Witness ==
  /\ engine.fn = "determinePriority"
  /\ engine.session.customerInfo = UndefinedCustomer
  /\ HasOrderAbove1000
  /\ engine.priority = "MEDIUM"

\* A verify call for a REGULAR customer and an unflagged order, the
\* complaint plausible and reported within its window (60 minutes for wrong
\* order and missing item; at least 10 minutes late and within 24 hours
\* for late delivery).
PlausibleInWindow ==
  /\ engine.fn \in VerifyCalls
  /\ engine.orderDetails # UndefinedOrder
  /\ engine.customerInfo # UndefinedCustomer
  /\ engine.customerInfo.membershipTier = "REGULAR"
  /\ ~engine.orderDetails.problemFlag
  /\ engine.orderDetails.deliveredAt.kind = "date"
  /\ IF engine.fn = "verifyLateDeliveryIssue"
       THEN /\ engine.orderDetails.deliveredAt.minutesAgo <= 24 * 60
            /\ \E late \in LatenessMinutes(engine.orderDetails) : late >= 10
       ELSE engine.orderDetails.deliveredAt.minutesAgo <= 60
  /\ engine.fn = "verifyMissingItemIssue" =>
        /\ engine.orderDetails.items # Undefined
        /\ engine.itemNames = {<<"margherita pizza">>}

\* C24: for such a call, whatever the issue type, verified is false when
\* the customer's fraud risk score is above 0.7 and true otherwise.
C24_RiskGate ==
  PlausibleInWindow =>
     ( engine.verification.verified <=>
          \A score \in engine.customerInfo.fraudRiskScore10 : score <= 7 )

\* C25: verifyMissingItemIssue does not reject as implausible a claim whose
\* lower-case name is a substring of an ordered item's lower-case name.
C25_SubstringMatch ==
  ( /\ engine.fn = "verifyMissingItemIssue"
    /\ engine.orderDetails # UndefinedOrder
    /\ engine.orderDetails.items # Undefined
    /\ \E names \in engine.itemNames :
          \E n \in DOMAIN names :
             \E i \in DOMAIN ValueOf(engine.orderDetails.items) :
                StringIncludes(
                   toLowerCase(ValueOf(engine.orderDetails.items)[i].name),
                   toLowerCase(names[n])) ) =>
     engine.verification.reason
        # "Claimed missing items were not in the original order"

\* C29: when verifyLateDeliveryIssue verifies an order with a positive
\* total, decideSolution for LATE_DELIVERY with the lateness it computed
\* returns a positive amount.
C29_VerifiedLateCompensated ==
  ( /\ engine.fn = "decideSolution"
    /\ engine.issueType = "LATE_DELIVERY"
    /\ engine.orderDetails # UndefinedOrder
    /\ engine.orderDetails.totalAmount > 0
    /\ verifyLateDeliveryIssue(engine.orderDetails, engine.customerInfo).verified
    /\ engine.entities.latenessMinutes = LatenessMinutes(engine.orderDetails) ) =>
     engine.solution.amount > 0

\* C26: every Resolution in a stored session's resolution log is for one
\* of that session's orders.
C26_ResolutionForOwnOrder ==
  \A sid \in DOMAIN Stored :
     \A i \in DOMAIN Stored[sid].resolutions :
        \E k \in DOMAIN Stored[sid].orderIds :
           Stored[sid].orderIds[k] = Stored[sid].resolutions[i].orderId

\* C27: a stored session holds at most one REFUND Resolution per order.
C27_OneRefundPerOrder ==
  \A sid \in DOMAIN Stored :
     \A i, j \in DOMAIN Stored[sid].resolutions :
        ( /\ Stored[sid].resolutions[i].type = "REFUND"
          /\ Stored[sid].resolutions[j].type = "REFUND"
          /\ Stored[sid].resolutions[i].orderId
                = Stored[sid].resolutions[j].orderId ) => i = j

\* C28: a PostMessage that has returned 500 has left nothing of its turn
\* in the stored session: no message and no Resolution of that call.
C28_FailedTurnLeavesNoTrace ==
  \A r \in MessageReqs :
     ( /\ req[r].pc = "done"
       /\ req[r].status = 500
       /\ req[r].sid \in DOMAIN Stored ) =>
        /\ ~Tagged(Stored[req[r].sid].conversationHistory, r)
        /\ ~Tagged(Stored[req[r].sid].resolutions, r)

====
